---------------------------- MODULE Spec2Model ----------------------------
(***************************************************************************)
(* A model of the ms3d decoder: the two byte sources of src/src/read.rs,   *)
(* the packed record layouts of src/src/de.rs and the decoding core of     *)
(* src/src/lib.rs.                                                         *)
(*                                                                         *)
(* A byte is a number in 0..255.  An f32 or u32 field is kept as its four  *)
(* little-endian bytes (the decoder only copies them); u8, i8, u16 and i32 *)
(* fields are decoded to integers.  A usize is kept as four 16-bit limbs,  *)
(* least significant first (a 64-bit target), so that the casts            *)
(* `x as usize` of lib.rs keep their width.                                *)
(***************************************************************************)
EXTENDS Integers, Sequences, FiniteSets, TLC

VARIABLES
  input,   \* the bytes handed to the decoder or to the byte source
  meta,    \* how `input` was built (used by the properties only)
  out,     \* decoder: per entry point, the outcome of Model::from_bytes / from_reader
  rd,      \* byte sources: the SliceReader and the IoReader over `input`
  last,    \* byte sources: the last call of read and what it returned
  fin,     \* convert_flags: the call and its result
  sin      \* convert_string / convert_path: the call and its result

vars == <<input, meta, out, rd, last, fin, sin>>

(***************************************************************************)
(* Bounds of the model.                                                    *)
(***************************************************************************)
\* records per list section of a generated file
MaxCount == 1
\* the underlying stream hands out at most this many bytes per io::Read::read
MaxChunk == 2
\* the decoder's stream hands out pieces of ChunkUnit, 2 * ChunkUnit, ... bytes
ChunkUnit == 50
\* length of the byte source in the read-contract specification
MaxSrc == 3
\* width of the byte arrays given to convert_string in its specification
MaxStr == 3

(***************************************************************************)
(* Bytes and integers.                                                     *)
(***************************************************************************)
Byte == 0..255

Min(a, b) == IF a < b THEN a ELSE b

Max(a, b) == IF a < b THEN b ELSE a

RECURSIVE Rep(_, _)
\* k copies of byte b
Rep(b, k) == IF k <= 0 THEN <<>> ELSE <<b>> \o Rep(b, k - 1)

RECURSIVE BitAnd(_, _)
\* bitwise AND of two naturals
BitAnd(a, b) == IF a = 0 \/ b = 0 THEN 0 ELSE (a % 2) * (b % 2) + 2 * BitAnd(a \div 2, b \div 2)

\* little-endian u16
U16(bs) == bs[1] + 256 * bs[2]

\* little-endian i32 (two's complement)
I32(bs) == bs[1] + 256 * bs[2] + 65536 * bs[3] + 16777216 * (IF bs[4] >= 128 THEN bs[4] - 256 ELSE bs[4])

\* i8 (two's complement)
I8(b) == IF b >= 128 THEN b - 256 ELSE b

\* usize of a natural below 2^31
Usize(n) == <<n % 65536, n \div 65536, 0, 0>>

\* `x as usize` for x: u32 given by its four bytes (zero extension)
U32AsUsize(bs) == <<bs[1] + 256 * bs[2], bs[3] + 256 * bs[4], 0, 0>>

\* `x as usize` for x: i32 (sign extension to 64 bits)
I32AsUsize(x) == IF x >= 0 THEN Usize(x) ELSE LET y == (x + 2147483647) + 1 IN <<y % 65536, (y \div 65536) + 32768, 65535, 65535>>

\* the usize is below 2^31
Small(u) == u[3] = 0 /\ u[4] = 0 /\ u[2] < 32768

\* the value of a small usize
Val(u) == u[1] + 65536 * u[2]

\* i < u for a natural i below 2^31
NatLt(i, u) == ~Small(u) \/ i < Val(u)

\* u exceeds isize::MAX
ExceedsIsizeMax(u) == u[4] >= 32768

(***************************************************************************)
(* Results: Ok(value) or Err(kind), with the reader state after the call.  *)
(* Error kinds: "eof" (io::ErrorKind::UnexpectedEof), "format" (ensure! /  *)
(* bail! / invalid flags), "utf8" (from_utf8), "panic" (the call did not   *)
(* return: Vec::reserve's capacity overflow).                              *)
(***************************************************************************)
Ok(v, r) == [ok |-> TRUE, err |-> "none", val |-> v, rdr |-> r]

Err(e, r) == [ok |-> FALSE, err |-> e, val |-> <<>>, rdr |-> r]

(***************************************************************************)
(* src/src/read.rs: the byte sources.                                      *)
(***************************************************************************)
\* SliceReader::new: a slice is a view (ptr, len) into the caller's buffer
SliceReader_new == [kind |-> "slice", ptr |-> 0, len |-> Len(input)]

\* SliceReader::read
SliceReader_read(r, len) ==
  IF ~Small(len) \/ Val(len) > r.len
    THEN Err("eof", r)
    ELSE LET n == Val(len)
             head == SubSeq(input, r.ptr + 1, r.ptr + n)
         IN Ok(head, [r EXCEPT !.ptr = r.ptr + n, !.len = r.len - n])

\* IoReader::new: the stream is at position 0 and hands out at most `chunk`
\* bytes per call of io::Read::read.  The scratch Vec is empty: `cap` is its
\* capacity, `data` the bytes written into its allocation so far (its len()
\* stays 0), and `uninit` the byte that the part of the allocation never
\* written (uninitialised memory) happens to hold
IoReader_new(chunk, uninit) == [kind |-> "io", pos |-> 0, chunk |-> chunk, uninit |-> uninit, buf |-> [cap |-> 0, data |-> <<>>]]

\* Vec::reserve(len) on a Vec whose len() is 0: the capacity becomes at least len
reserve(buf, len) == [buf EXCEPT !.cap = Max(buf.cap, len)]

\* buf.get_unchecked_mut(..len): the first len bytes of the allocation,
\* initialised or not
slice_of(r, len) == [i \in 1..len |-> IF i <= Len(r.buf.data) THEN r.buf.data[i] ELSE r.uninit]

\* io::Read::read of the underlying stream into a buffer of `want` bytes: a
\* short read of at most `chunk` bytes, 0 at the end of the stream
stream_read(pos, chunk, want) == Min(Min(chunk, want), Len(input) - pos)

RECURSIVE read_exact(_, _, _)
\* io::Read::read_exact into buf[..len], the slice IoReader::read passes: read
\* until it is full; a read of 0 bytes is UnexpectedEof
read_exact(r, filled, len) ==
  IF filled = len
    THEN Ok(slice_of(r, len), r)
    ELSE LET k == stream_read(r.pos, r.chunk, len - filled)
         IN IF k = 0
              THEN Err("eof", r)
              ELSE read_exact([r EXCEPT !.pos = r.pos + k,
                                        !.buf.data = SubSeq(r.buf.data, 1, filled) \o SubSeq(input, r.pos + 1, r.pos + k) \o SubSeq(r.buf.data, filled + k + 1, Len(r.buf.data))],
                              filled + k, len)

\* IoReader::read.  A length above isize::MAX makes Vec::reserve panic
\* (capacity overflow); a length of 2^31 or more is more than any input here
\* holds, so read_exact drains the stream and fails
IoReader_read(r, len) ==
  IF ExceedsIsizeMax(len)
    THEN Err("panic", r)
    ELSE IF ~Small(len)
      THEN Err("eof", [r EXCEPT !.pos = Len(input)])
      ELSE read_exact([r EXCEPT !.buf = reserve(r.buf, Val(len))], 0, Val(len))

\* the byte source's one operation, over either realisation
buf_read_exact(r, len) == IF r.kind = "slice" THEN SliceReader_read(r, len) ELSE IoReader_read(r, len)

\* bytes of the source handed out or skipped so far
Consumed(r) == IF r.kind = "slice" THEN r.ptr ELSE r.pos

(***************************************************************************)
(* src/src/de.rs: the packed record layouts.  A layout is the sequence of  *)
(* its fields; a field is its name, its element type and its element      *)
(* count (0 for a scalar).                                                 *)
(***************************************************************************)
F(name, ty) == [name |-> name, ty |-> ty, n |-> 0]

A(name, ty, n) == [name |-> name, ty |-> ty, n |-> n]

\* mem::size_of of a primitive
Width(ty) == CASE ty \in {"u8", "i8"} -> 1 [] ty = "u16" -> 2 [] ty \in {"i32", "u32", "f32"} -> 4

\* bytes of one field
FieldSize(f) == Width(f.ty) * (IF f.n = 0 THEN 1 ELSE f.n)

\* the structs of de.rs, and the primitives read_u16 / read_u32 / read_i32 read
Layout(T) ==
  CASE T = "Header" -> <<A("id", "u8", 10), F("version", "i32")>>
    [] T = "Vertex" -> <<F("flags", "u8"), A("vertex", "f32", 3), F("bone_id", "i8"), F("reference_count", "u8")>>
    [] T = "Triangle" -> <<F("flags", "u16"), A("vertex_indices", "u16", 3), A("vertex_normals", "f32", 9), A("s", "f32", 3), A("t", "f32", 3), F("smoothing_group", "u8"), F("group_index", "u8")>>
    [] T = "GroupPrefix" -> <<F("flags", "u8"), A("name", "u8", 32), F("num_triangles", "u16")>>
    [] T = "GroupSuffix" -> <<F("material_index", "i8")>>
    [] T = "Material" -> <<A("name", "u8", 32), A("ambient", "f32", 4), A("diffuse", "f32", 4), A("specular", "f32", 4), A("emissive", "f32", 4), F("shininess", "f32"), F("transparency", "f32"), F("mode", "u8"), A("texture", "u8", 128), A("alphamap", "u8", 128)>>
    [] T = "KeyFrameData" -> <<F("animation_fps", "f32"), F("current_time", "f32"), F("total_frames", "i32")>>
    [] T = "KeyFrameRot" -> <<F("time", "f32"), A("rotation", "f32", 3)>>
    [] T = "KeyFramePos" -> <<F("time", "f32"), A("position", "f32", 3)>>
    [] T = "JointPrefix" -> <<F("flags", "u8"), A("name", "u8", 32), A("parent_name", "u8", 32), A("rotation", "f32", 3), A("position", "f32", 3), F("num_key_frames_rot", "u16"), F("num_key_frames_trans", "u16")>>
    [] T = "CommentPrefix" -> <<F("index", "i32"), F("comment_length", "i32")>>
    [] T = "VertexEx1" -> <<A("bone_ids", "i8", 3), A("weights", "u8", 3)>>
    [] T = "VertexEx2" -> <<A("bone_ids", "i8", 3), A("weights", "u8", 3), F("extra", "u32")>>
    [] T = "VertexEx3" -> <<A("bone_ids", "i8", 3), A("weights", "u8", 3), A("extra", "u32", 2)>>
    [] T = "JointEx" -> <<A("color", "f32", 3)>>
    [] T = "ModelEx" -> <<F("joint_size", "f32"), F("transparency_mode", "i32"), F("alpha_ref", "f32")>>
    [] T = "u16" -> <<F("value", "u16")>>
    [] T = "u32" -> <<F("value", "u32")>>
    [] T = "i32" -> <<F("value", "i32")>>

RECURSIVE OffsetOf(_, _)
\* #[repr(C, packed)]: field i starts where field i-1 ends
OffsetOf(L, i) == IF i = 1 THEN 0 ELSE OffsetOf(L, i - 1) + FieldSize(L[i - 1])

\* e rounded up to a multiple of a
RoundUp(e, a) == ((e + a - 1) \div a) * a

RECURSIVE AlignedEnd(_, _)
\* #[repr(C)] without `packed`: the end of field i when every field is aligned
\* to its element type
AlignedEnd(L, i) == IF i = 0 THEN 0 ELSE RoundUp(AlignedEnd(L, i - 1), Width(L[i].ty)) + FieldSize(L[i])

\* the largest alignment among the fields of L
MaxAlign(L) == CHOOSE m \in {Width(L[i].ty) : i \in 1..Len(L)} : \A j \in 1..Len(L) : Width(L[j].ty) <= m

\* size of a struct laid out as #[repr(C)] without `packed`: aligned fields,
\* padded to the largest alignment
size_of_repr_c(T) == RoundUp(AlignedEnd(Layout(T), Len(Layout(T))), MaxAlign(Layout(T)))

\* the end of the last field of a packed layout
PackedEnd(L) == OffsetOf(L, Len(L)) + FieldSize(L[Len(L)])

\* mem::size_of::<T>() for the #[repr(C, packed)] structs
size_of(T) == PackedEnd(Layout(T))

\* one element of type ty from its bytes
Scalar(ty, bs) ==
  CASE ty = "u8" -> bs[1]
    [] ty = "i8" -> I8(bs[1])
    [] ty = "u16" -> U16(bs)
    [] ty = "i32" -> I32(bs)
    [] ty \in {"u32", "f32"} -> bs

\* the value of field f, which starts at offset o of the byte run bs
FieldAt(f, o, bs) ==
  IF f.n = 0 THEN Scalar(f.ty, SubSeq(bs, o + 1, o + Width(f.ty)))
  ELSE IF f.ty = "u8" THEN SubSeq(bs, o + 1, o + f.n)
  ELSE [k \in 1..f.n |-> Scalar(f.ty, SubSeq(bs, o + (k - 1) * Width(f.ty) + 1, o + k * Width(f.ty)))]

\* the value of field i of layout L in the byte run bs
FieldVal(L, i, bs) == FieldAt(L[i], OffsetOf(L, i), bs)

\* the struct of layout L in the byte run bs, by field name
Struct(L, bs) == [name \in {L[i].name : i \in 1..Len(L)} |-> FieldVal(L, CHOOSE i \in 1..Len(L) : L[i].name = name, bs)]

\* ptr::read_unaligned(bytes as *const T)
read_unaligned(T, bs) == Struct(Layout(T), bs)

(***************************************************************************)
(* src/src/lib.rs: Reader.  A Reader holds its byte source; `log` records  *)
(* every read_type / read_string call (type, bytes asked for, bytes the    *)
(* source moved on by) for the properties.                                 *)
(***************************************************************************)
Reader(rdr) == [rdr |-> rdr, log |-> <<>>]

\* Reader::from_slice
from_slice == Reader(SliceReader_new)

\* Reader::from_io_reader
from_io_reader(chunk, uninit) == Reader(IoReader_new(chunk, uninit))

\* the Reader after its byte source answered `got` to a call for len bytes
\* made for `what`
Logged(rd_, what, len, got) ==
  [rdr |-> got.rdr,
   log |-> Append(rd_.log, [ty |-> what, n |-> IF Small(len) THEN Val(len) ELSE -1, ok |-> got.ok,
                            from |-> Consumed(rd_.rdr), to |-> Consumed(got.rdr)])]

\* what the Reader's caller gets of the byte source's answer `got`
Answer(got, rd_) == IF got.ok THEN Ok(got.val, rd_) ELSE Err(got.err, rd_)

\* the Reader's caller gets `got`, and the Reader has logged the call
Deliver(rd_, what, len, got) == Answer(got, Logged(rd_, what, len, got))

\* self.rdr.buf_read_exact(len), made for `what`
Fetch(rd_, what, len) == Deliver(rd_, what, len, buf_read_exact(rd_.rdr, len))

\* the bytes `got` as a T
Typed(T, got) == IF got.ok THEN Ok(read_unaligned(T, got.val), got.rdr) ELSE got

\* Reader::read_type::<T>
read_type(rd_, T) == Typed(T, Fetch(rd_, T, Usize(size_of(T))))

\* the number read as a one-field struct
ValueOf(got) == IF got.ok THEN Ok(got.val.value, got.rdr) ELSE got

\* Reader::read_u16
read_u16(rd_) == ValueOf(read_type(rd_, "u16"))

\* Reader::read_u32
read_u32(rd_) == ValueOf(read_type(rd_, "u32"))

\* Reader::read_i32
read_i32(rd_) == ValueOf(read_type(rd_, "i32"))

(***************************************************************************)
(* src/src/model.rs: the flag bits; src/src/lib.rs: the conversions.       *)
(***************************************************************************)
SELECTED == 1

HIDDEN == 2

SELECTED2 == 4

DIRTY == 8

\* bitwise OR of flag constants with distinct bits
Flags_all == SELECTED + HIDDEN + SELECTED2 + DIRTY

Vertex_ALLOWED_FLAGS == SELECTED + SELECTED2 + HIDDEN

Triangle_ALLOWED_FLAGS == SELECTED + SELECTED2 + HIDDEN

Group_ALLOWED_FLAGS == SELECTED + HIDDEN

Joint_ALLOWED_FLAGS == SELECTED + DIRTY

\* Flags::from_bits(bits).is_some(): no bit outside the named ones
from_bits(bits) == BitAnd(bits, 255 - Flags_all) = 0

\* Flags::contains
contains(allowed, flags) == BitAnd(allowed, flags) = flags

\* convert_flags with the `allowed.contains` test left out
convert_flags_any(bits, allowed) == IF from_bits(bits) THEN Ok([bits |-> bits], <<>>) ELSE Err("format", <<>>)

\* convert_flags
convert_flags(bits, allowed) == IF from_bits(bits) /\ contains(allowed, bits) THEN Ok([bits |-> bits], <<>>) ELSE Err("format", <<>>)

\* bs[j] is a byte in lo..hi
InRange(bs, j, lo, hi) == j <= Len(bs) /\ bs[j] >= lo /\ bs[j] <= hi

RECURSIVE utf8_from(_, _)
\* core::str::from_utf8 from index i on: well-formed UTF-8 (no overlong forms,
\* no surrogates, nothing above U+10FFFF)
utf8_from(bs, i) ==
  IF i > Len(bs) THEN TRUE
  ELSE LET b == bs[i]
       IN CASE b < 128 -> utf8_from(bs, i + 1)
            [] b \in 194..223 -> InRange(bs, i + 1, 128, 191) /\ utf8_from(bs, i + 2)
            [] b = 224 -> InRange(bs, i + 1, 160, 191) /\ InRange(bs, i + 2, 128, 191) /\ utf8_from(bs, i + 3)
            [] b \in (225..236) \cup (238..239) -> InRange(bs, i + 1, 128, 191) /\ InRange(bs, i + 2, 128, 191) /\ utf8_from(bs, i + 3)
            [] b = 237 -> InRange(bs, i + 1, 128, 159) /\ InRange(bs, i + 2, 128, 191) /\ utf8_from(bs, i + 3)
            [] b = 240 -> InRange(bs, i + 1, 144, 191) /\ InRange(bs, i + 2, 128, 191) /\ InRange(bs, i + 3, 128, 191) /\ utf8_from(bs, i + 4)
            [] b \in 241..243 -> InRange(bs, i + 1, 128, 191) /\ InRange(bs, i + 2, 128, 191) /\ InRange(bs, i + 3, 128, 191) /\ utf8_from(bs, i + 4)
            [] b = 244 -> InRange(bs, i + 1, 128, 143) /\ InRange(bs, i + 2, 128, 191) /\ InRange(bs, i + 3, 128, 191) /\ utf8_from(bs, i + 4)
            [] OTHER -> FALSE

\* String::from_utf8(vec).is_ok()
from_utf8(bs) == utf8_from(bs, 1)

\* memchr(0, bytes): the index (from 1) of the first zero byte, 0 for None
memchr0(bytes) == IF \E i \in 1..Len(bytes) : bytes[i] = 0 THEN CHOOSE i \in 1..Len(bytes) : bytes[i] = 0 /\ \A j \in 1..(i - 1) : bytes[j] # 0 ELSE 0

\* String::from_utf8(vec), a String kept as its UTF-8 bytes
String_from_utf8(vec) == IF from_utf8(vec) THEN Ok(vec, <<>>) ELSE Err("utf8", <<>>)

\* bytes[..i] for Some(i) (i counted from 1 here), bytes for None
UpTo(bytes, i) == IF i # 0 THEN SubSeq(bytes, 1, i - 1) ELSE bytes

\* convert_string that takes the whole array whether or not it holds a zero
convert_string_whole(bytes) == String_from_utf8(bytes)

\* convert_string
convert_string(bytes) == String_from_utf8(UpTo(bytes, memchr0(bytes)))

\* convert_path: a PathBuf holds the String's bytes
convert_path(bytes) == convert_string(bytes)

\* "MS3D000000".as_bytes()
MAGIC == <<77, 83, 51, 68, 48, 48, 48, 48, 48, 48>>

\* a conversion's result `c?` inside a Reader method
Lift(c, rd_) == IF c.ok THEN Ok(c.val, rd_) ELSE Err(c.err, rd_)

\* ensure!(cond, ..)
ensure(cond, rd_) == IF cond THEN Ok(TRUE, rd_) ELSE Err("format", rd_)

\* the start of a method body: its arguments `args` are bound, nothing is read
Body(args, rd_) == Ok(args, rd_)

RECURSIVE read_vec(_, _, _)

RECURSIVE Lets(_, _, _, _)

\* String::from_utf8(buf) of read_string
Utf8(got) == IF ~got.ok THEN got ELSE IF from_utf8(got.val) THEN Ok(got.val, got.rdr) ELSE Err("utf8", got.rdr)

\* Reader::read_string
read_string(rd_, len) == Utf8(Fetch(rd_, "string", len))

\* Reader::read_header, line by line
read_header_let(name, v, rd_) ==
  CASE name = "de" -> read_type(rd_, "Header")
    [] name = "id" -> ensure(v.de.id = MAGIC, rd_)
    [] name = "version" -> ensure(v.de.version = 4, rd_)

\* Ok(Header { version })
Header_of(m) == IF m.ok THEN Ok([version |-> m.val.de.version], m.rdr) ELSE m

\* read_header without the version check
read_header_any_version(rd_) == Header_of(Lets("read_header", <<"de", "id">>, 1, Body(<<>>, rd_)))

\* Reader::read_header
read_header(rd_) == Header_of(Lets("read_header", <<"de", "id", "version">>, 1, Body(<<>>, rd_)))

\* self.read_vec(len, f) for the len that was read
counted(len, f) == IF len.ok THEN read_vec(len.rdr, Usize(len.val), f) ELSE len

\* Reader::read_vertex, line by line
read_vertex_let(name, v, rd_) ==
  CASE name = "de" -> read_type(rd_, "Vertex")
    [] name = "flags" -> Lift(convert_flags(v.de.flags, Vertex_ALLOWED_FLAGS), rd_)

\* Ok(Vertex { .. })
Vertex_of(m) ==
  IF m.ok THEN Ok([flags |-> m.val.flags, vertex |-> m.val.de.vertex, bone_id |-> m.val.de.bone_id,
                   reference_count |-> m.val.de.reference_count], m.rdr)
  ELSE m

\* Reader::read_vertex
read_vertex(rd_) == Vertex_of(Lets("read_vertex", <<"de", "flags">>, 1, Body(<<>>, rd_)))

\* Reader::read_vertices
read_vertices(rd_) == counted(read_u16(rd_), "vertex")

\* Reader::read_triangle, line by line
read_triangle_let(name, v, rd_) ==
  CASE name = "de" -> read_type(rd_, "Triangle")
    [] name = "flags" -> Lift(convert_flags(v.de.flags % 256, Triangle_ALLOWED_FLAGS), rd_)

\* Ok(Triangle { .. })
Triangle_of(m) ==
  IF m.ok THEN Ok([flags |-> m.val.flags, vertex_indices |-> m.val.de.vertex_indices,
                   vertex_normals |-> m.val.de.vertex_normals, s |-> m.val.de.s, t |-> m.val.de.t,
                   smoothing_group |-> m.val.de.smoothing_group, group_index |-> m.val.de.group_index], m.rdr)
  ELSE m

\* Reader::read_triangle
read_triangle(rd_) == Triangle_of(Lets("read_triangle", <<"de", "flags">>, 1, Body(<<>>, rd_)))

\* Reader::read_triangles
read_triangles(rd_) == counted(read_u16(rd_), "triangle")

\* Reader::read_group, line by line
read_group_let(name, v, rd_) ==
  CASE name = "prefix" -> read_type(rd_, "GroupPrefix")
    [] name = "flags" -> Lift(convert_flags(v.prefix.flags, Group_ALLOWED_FLAGS), rd_)
    [] name = "name" -> Lift(convert_string(v.prefix.name), rd_)
    [] name = "triangle_indices" -> read_vec(rd_, Usize(v.prefix.num_triangles), "u16")
    [] name = "suffix" -> read_type(rd_, "GroupSuffix")

\* Ok(Group { .. })
Group_of(m) ==
  IF m.ok THEN Ok([flags |-> m.val.flags, name |-> m.val.name, triangle_indices |-> m.val.triangle_indices,
                   material_index |-> m.val.suffix.material_index], m.rdr)
  ELSE m

\* Reader::read_group
read_group(rd_) == Group_of(Lets("read_group", <<"prefix", "flags", "name", "triangle_indices", "suffix">>, 1, Body(<<>>, rd_)))

\* Reader::read_groups
read_groups(rd_) == counted(read_u16(rd_), "group")

\* Reader::read_material, line by line
read_material_let(name, v, rd_) ==
  CASE name = "de" -> read_type(rd_, "Material")
    [] name = "name" -> Lift(convert_string(v.de.name), rd_)
    [] name = "texture" -> Lift(convert_path(v.de.texture), rd_)
    [] name = "alphamap" -> Lift(convert_path(v.de.alphamap), rd_)

\* Ok(Material { .. })
Material_of(m) ==
  IF m.ok THEN Ok([name |-> m.val.name, ambient |-> m.val.de.ambient, diffuse |-> m.val.de.diffuse,
                   specular |-> m.val.de.specular, emissive |-> m.val.de.emissive,
                   shininess |-> m.val.de.shininess, transparency |-> m.val.de.transparency,
                   mode |-> m.val.de.mode, texture |-> m.val.texture, alphamap |-> m.val.alphamap], m.rdr)
  ELSE m

\* Reader::read_material
read_material(rd_) == Material_of(Lets("read_material", <<"de", "name", "texture", "alphamap">>, 1, Body(<<>>, rd_)))

\* Reader::read_materials
read_materials(rd_) == counted(read_u16(rd_), "material")

\* Reader::read_key_frame_data
read_key_frame_data(rd_) == read_type(rd_, "KeyFrameData")

\* Reader::read_key_frame_rot
read_key_frame_rot(rd_) == read_type(rd_, "KeyFrameRot")

\* Reader::read_key_frame_pos
read_key_frame_pos(rd_) == read_type(rd_, "KeyFramePos")

\* Reader::read_joint, line by line
read_joint_let(name, v, rd_) ==
  CASE name = "prefix" -> read_type(rd_, "JointPrefix")
    [] name = "flags" -> Lift(convert_flags(v.prefix.flags, Joint_ALLOWED_FLAGS), rd_)
    [] name = "name" -> Lift(convert_string(v.prefix.name), rd_)
    [] name = "parent_name" -> Lift(convert_string(v.prefix.parent_name), rd_)
    [] name = "key_frames_rot" -> read_vec(rd_, Usize(v.prefix.num_key_frames_rot), "key_frame_rot")
    [] name = "key_frames_trans" -> read_vec(rd_, Usize(v.prefix.num_key_frames_trans), "key_frame_pos")

\* Ok(Joint { .. })
Joint_of(m) ==
  IF m.ok THEN Ok([flags |-> m.val.flags, name |-> m.val.name, parent_name |-> m.val.parent_name,
                   rotation |-> m.val.prefix.rotation, position |-> m.val.prefix.position,
                   key_frames_rot |-> m.val.key_frames_rot, key_frames_trans |-> m.val.key_frames_trans], m.rdr)
  ELSE m

\* Reader::read_joint
read_joint(rd_) == Joint_of(Lets("read_joint", <<"prefix", "flags", "name", "parent_name", "key_frames_rot", "key_frames_trans">>, 1, Body(<<>>, rd_)))

\* Reader::read_joints
read_joints(rd_) == counted(read_u16(rd_), "joint")

\* Reader::read_comment, line by line
read_comment_let(name, v, rd_) ==
  CASE name = "prefix" -> read_type(rd_, "CommentPrefix")
    [] name = "comment" -> read_string(rd_, I32AsUsize(v.prefix.comment_length))

\* Ok(Comment { index, comment })
Comment_of(m) == IF m.ok THEN Ok([index |-> m.val.prefix.index, comment |-> m.val.comment], m.rdr) ELSE m

\* Reader::read_comment
read_comment(rd_) == Comment_of(Lets("read_comment", <<"prefix", "comment">>, 1, Body(<<>>, rd_)))

\* Some(self.read_comment()?): None is <<>>, Some(c) is <<c>>
Some(c) == IF c.ok THEN Ok(<<c.val>>, c.rdr) ELSE c

\* the `match len` with every count but 0 read as one comment
read_model_comment_lenient(rd_, len) == IF len = Usize(0) THEN Ok(<<>>, rd_) ELSE Some(read_comment(rd_))

\* Reader::read_comments, the `match len` on the model-comment count
read_model_comment(rd_, len) ==
  IF len = Usize(0) THEN Ok(<<>>, rd_)
  ELSE IF len = Usize(1) THEN Some(read_comment(rd_))
  ELSE Err("format", rd_)

\* Reader::read_comments, line by line; `len` is bound anew by each count
read_comments_let(name, v, rd_) ==
  CASE name = "sub_version" -> read_i32(rd_)
    [] name = "ensure" -> ensure(v.sub_version = 1, rd_)
    [] name = "group_len" -> read_u32(rd_)
    [] name = "group_comments" -> read_vec(rd_, U32AsUsize(v.group_len), "comment")
    [] name = "material_len" -> read_i32(rd_)
    [] name = "material_comments" -> read_vec(rd_, I32AsUsize(v.material_len), "comment")
    [] name = "joint_len" -> read_i32(rd_)
    [] name = "joint_comments" -> read_vec(rd_, I32AsUsize(v.joint_len), "comment")
    [] name = "model_len" -> read_i32(rd_)
    [] name = "model_comment" -> read_model_comment(rd_, I32AsUsize(v.model_len))

\* Ok(Comments { .. })
Comments_of(m) ==
  IF m.ok THEN Ok([sub_version |-> m.val.sub_version, group_comments |-> m.val.group_comments,
                   material_comments |-> m.val.material_comments, joint_comments |-> m.val.joint_comments,
                   model_comment |-> m.val.model_comment], m.rdr)
  ELSE m

\* Reader::read_comments
read_comments(rd_) ==
  Comments_of(Lets("read_comments", <<"sub_version", "ensure", "group_len", "group_comments", "material_len", "material_comments",
                                      "joint_len", "joint_comments", "model_len", "model_comment">>, 1, Body(<<>>, rd_)))

\* Reader::read_vertex_ex_1
read_vertex_ex_1(rd_) == read_type(rd_, "VertexEx1")

\* Reader::read_vertex_ex_2
read_vertex_ex_2(rd_) == read_type(rd_, "VertexEx2")

\* Reader::read_vertex_ex_3
read_vertex_ex_3(rd_) == read_type(rd_, "VertexEx3")

\* Reader::read_vertex_ex_info, line by line
read_vertex_ex_info_let(name, v, rd_) ==
  CASE name = "sub_version" -> read_i32(rd_)
    [] name = "items" -> CASE v.sub_version = 1 -> read_vec(rd_, v.len, "vertex_ex_1")
                           [] v.sub_version = 2 -> read_vec(rd_, v.len, "vertex_ex_2")
                           [] v.sub_version = 3 -> read_vec(rd_, v.len, "vertex_ex_3")
                           [] OTHER -> Err("format", rd_)

\* Ok(SubVersion1(..)), Ok(SubVersion2(..)), Ok(SubVersion3(..))
VertexExInfo_of(m) == IF m.ok THEN Ok([variant |-> m.val.sub_version, items |-> m.val.items], m.rdr) ELSE m

\* Reader::read_vertex_ex_info
read_vertex_ex_info(rd_, len) == VertexExInfo_of(Lets("read_vertex_ex_info", <<"sub_version", "items">>, 1, Body([len |-> len], rd_)))

\* Reader::read_joint_ex
read_joint_ex(rd_) == read_type(rd_, "JointEx")

\* Reader::read_joint_ex_info, line by line
read_joint_ex_info_let(name, v, rd_) ==
  CASE name = "sub_version" -> read_i32(rd_)
    [] name = "ensure" -> ensure(v.sub_version = 1, rd_)
    [] name = "joint_ex" -> read_vec(rd_, v.len, "joint_ex")

\* Ok(JointExInfo { sub_version, joint_ex })
JointExInfo_of(m) == IF m.ok THEN Ok([sub_version |-> m.val.sub_version, joint_ex |-> m.val.joint_ex], m.rdr) ELSE m

\* Reader::read_joint_ex_info
read_joint_ex_info(rd_, len) == JointExInfo_of(Lets("read_joint_ex_info", <<"sub_version", "ensure", "joint_ex">>, 1, Body([len |-> len], rd_)))

\* Reader::read_model_ex
read_model_ex(rd_) == read_type(rd_, "ModelEx")

\* Reader::read_model_ex_info, line by line
read_model_ex_info_let(name, v, rd_) ==
  CASE name = "sub_version" -> read_i32(rd_)
    [] name = "ensure" -> ensure(v.sub_version = 1, rd_)
    [] name = "model_ex" -> read_model_ex(rd_)

\* Ok(ModelExInfo { sub_version, model_ex })
ModelExInfo_of(m) == IF m.ok THEN Ok([sub_version |-> m.val.sub_version, model_ex |-> m.val.model_ex], m.rdr) ELSE m

\* Reader::read_model_ex_info
read_model_ex_info(rd_) == ModelExInfo_of(Lets("read_model_ex_info", <<"sub_version", "ensure", "model_ex">>, 1, Body(<<>>, rd_)))

\* the element reader `f` handed to read_vec, by name
read_elem(f, rd_) ==
  CASE f = "vertex" -> read_vertex(rd_)
    [] f = "triangle" -> read_triangle(rd_)
    [] f = "group" -> read_group(rd_)
    [] f = "material" -> read_material(rd_)
    [] f = "joint" -> read_joint(rd_)
    [] f = "key_frame_rot" -> read_key_frame_rot(rd_)
    [] f = "key_frame_pos" -> read_key_frame_pos(rd_)
    [] f = "comment" -> read_comment(rd_)
    [] f = "vertex_ex_1" -> read_vertex_ex_1(rd_)
    [] f = "vertex_ex_2" -> read_vertex_ex_2(rd_)
    [] f = "vertex_ex_3" -> read_vertex_ex_3(rd_)
    [] f = "joint_ex" -> read_joint_ex(rd_)
    [] f = "u16" -> read_u16(rd_)

RECURSIVE collect_lossy(_, _, _, _, _)

\* the item `got` of a lossy collect: a failure ends it with what was read
push_lossy(got, len, f, i, acc) ==
  IF got.ok THEN collect_lossy(got.rdr, len, f, i + 1, Append(acc, got.val)) ELSE Ok(acc, got.rdr)

\* collect that keeps what was read when an element fails
collect_lossy(rd_, len, f, i, acc) == IF ~NatLt(i, len) THEN Ok(acc, rd_) ELSE push_lossy(read_elem(f, rd_), len, f, i, acc)

RECURSIVE collect(_, _, _, _, _)

\* the item `got` of collect::<Result<Vec<_>>>(): the first Err is the result
push(got, len, f, i, acc) ==
  IF got.ok THEN collect(got.rdr, len, f, i + 1, Append(acc, got.val)) ELSE got

\* (0..len).map(|_| f(self)).collect::<Result<Vec<_>>>(), from item i on
collect(rd_, len, f, i, acc) == IF ~NatLt(i, len) THEN Ok(acc, rd_) ELSE push(read_elem(f, rd_), len, f, i, acc)

\* Reader::read_vec
read_vec(rd_, len, f) == collect(rd_, len, f, 0, <<>>)

\* read_model with the two list lengths handed to the wrong extension readers
read_model_let_swapped(name, v, rd_) ==
  CASE name = "header" -> read_header(rd_)
    [] name = "vertices" -> read_vertices(rd_)
    [] name = "triangles" -> read_triangles(rd_)
    [] name = "groups" -> read_groups(rd_)
    [] name = "materials" -> read_materials(rd_)
    [] name = "key_frame_data" -> read_key_frame_data(rd_)
    [] name = "joints" -> read_joints(rd_)
    [] name = "comments" -> read_comments(rd_)
    [] name = "vertex_ex_info" -> read_vertex_ex_info(rd_, Usize(Len(v.joints)))
    [] name = "joint_ex_info" -> read_joint_ex_info(rd_, Usize(Len(v.vertices)))
    [] name = "model_ex_info" -> read_model_ex_info(rd_)

\* Reader::read_model, line by line
read_model_let(name, v, rd_) ==
  CASE name = "header" -> read_header(rd_)
    [] name = "vertices" -> read_vertices(rd_)
    [] name = "triangles" -> read_triangles(rd_)
    [] name = "groups" -> read_groups(rd_)
    [] name = "materials" -> read_materials(rd_)
    [] name = "key_frame_data" -> read_key_frame_data(rd_)
    [] name = "joints" -> read_joints(rd_)
    [] name = "comments" -> read_comments(rd_)
    [] name = "vertex_ex_info" -> read_vertex_ex_info(rd_, Usize(Len(v.vertices)))
    [] name = "joint_ex_info" -> read_joint_ex_info(rd_, Usize(Len(v.joints)))
    [] name = "model_ex_info" -> read_model_ex_info(rd_)

\* the right-hand side of the line `let name = ..?;` of method fn, with the
\* bindings v made so far
Rhs(fn, name, v, rd_) ==
  CASE fn = "read_model" -> read_model_let(name, v, rd_)
    [] fn = "read_header" -> read_header_let(name, v, rd_)
    [] fn = "read_vertex" -> read_vertex_let(name, v, rd_)
    [] fn = "read_triangle" -> read_triangle_let(name, v, rd_)
    [] fn = "read_group" -> read_group_let(name, v, rd_)
    [] fn = "read_material" -> read_material_let(name, v, rd_)
    [] fn = "read_joint" -> read_joint_let(name, v, rd_)
    [] fn = "read_comment" -> read_comment_let(name, v, rd_)
    [] fn = "read_comments" -> read_comments_let(name, v, rd_)
    [] fn = "read_vertex_ex_info" -> read_vertex_ex_info_let(name, v, rd_)
    [] fn = "read_joint_ex_info" -> read_joint_ex_info_let(name, v, rd_)
    [] fn = "read_model_ex_info" -> read_model_ex_info_let(name, v, rd_)

\* the `?`: an Err is the method's result, an Ok is bound to names[i] and the
\* next line runs
Bound(fn, names, i, m, res) ==
  IF res.ok THEN Lets(fn, names, i + 1, Ok((names[i] :> res.val) @@ m.val, res.rdr)) ELSE res

\* the lines names[i], names[i + 1], .. of method fn, run in order
Lets(fn, names, i, m) == IF i > Len(names) THEN m ELSE Bound(fn, names, i, m, Rhs(fn, names[i], m.val, m.rdr))

\* Ok(Model { .. })
Model_of(m) ==
  IF m.ok THEN Ok([header |-> m.val.header, vertices |-> m.val.vertices, triangles |-> m.val.triangles,
                   groups |-> m.val.groups, materials |-> m.val.materials, key_frame_data |-> m.val.key_frame_data,
                   joints |-> m.val.joints, comments |-> m.val.comments, vertex_ex_info |-> m.val.vertex_ex_info,
                   joint_ex_info |-> m.val.joint_ex_info, model_ex_info |-> m.val.model_ex_info], m.rdr)
  ELSE m

\* Reader::read_model
read_model(rd_) ==
  Model_of(Lets("read_model", <<"header", "vertices", "triangles", "groups", "materials", "key_frame_data", "joints",
                                "comments", "vertex_ex_info", "joint_ex_info", "model_ex_info">>, 1, Body(<<>>, rd_)))

(***************************************************************************)
(* Input files.  An encoder to the layout table of de.rs builds the files  *)
(* the decoder is run on: well-formed files, their truncations, files with *)
(* an altered header, files with chosen comment counts and lengths, and    *)
(* files with chosen extension sub-versions.                               *)
(***************************************************************************)
\* u16, little-endian
LE16(n) == <<n % 256, n \div 256>>

\* i32, little-endian two's complement
LE32(x) ==
  LET y == IF x >= 0 THEN x ELSE (x + 2147483647) + 1
      top == (y \div 16777216) + (IF x >= 0 THEN 0 ELSE 128)
  IN <<y % 256, (y \div 256) % 256, (y \div 65536) % 256, top>>

\* an array of `width` bytes: `text`, then a zero byte and `fill` bytes when
\* text is shorter
Fixed(text, width, fill) == IF Len(text) >= width THEN SubSeq(text, 1, width) ELSE text \o <<0>> \o Rep(fill, width - Len(text) - 1)

\* de::Vertex
EncVertex(flags) == <<flags>> \o Rep(63, 12) \o <<255, 2>>

\* de::Triangle
EncTriangle(flags) == LE16(flags) \o LE16(0) \o LE16(0) \o LE16(0) \o Rep(64, 60) \o <<1, 0>>

\* de::GroupPrefix, the indices, de::GroupSuffix; the name fills its 32 bytes
EncGroup(flags, ntri) == <<flags>> \o Rep(71, 32) \o LE16(ntri) \o Rep(0, 2 * ntri) \o <<255>>

\* de::Material; the name ends early, with bytes that are no UTF-8 after it
EncMaterial == Fixed(<<109, 97, 116>>, 32, 255) \o Rep(62, 72) \o <<1>> \o Fixed(<<116, 46, 112, 110, 103>>, 128, 0) \o Fixed(<<>>, 128, 200)

\* de::KeyFrameData
EncKeyFrameData == Rep(65, 8) \o LE32(30)

\* de::JointPrefix and its key frames
EncJoint(flags, nrot, ntrans) == <<flags>> \o Fixed(<<98, 195, 169>>, 32, 0) \o Fixed(<<>>, 32, 0) \o Rep(61, 24) \o LE16(nrot) \o LE16(ntrans) \o Rep(60, 16 * nrot) \o Rep(59, 16 * ntrans)

\* de::CommentPrefix and the text
EncComment(index, clen, text) == LE32(index) \o LE32(clen) \o text

\* the text of every generated comment: "hi"
Text == <<104, 105>>

RECURSIVE Times(_, _)
\* k copies of the byte run bs
Times(bs, k) == IF k <= 0 THEN <<>> ELSE bs \o Times(bs, k - 1)

\* the bytes of a file's sections before the comments.  p.n: records per
\* list; p.hdr: the 14 header bytes
BeforeComments(p) ==
  p.hdr
  \o LE16(p.n) \o Times(EncVertex(SELECTED + SELECTED2), p.n)
  \o LE16(p.n) \o Times(EncTriangle(HIDDEN), p.n)
  \o LE16(p.n) \o Times(EncGroup(SELECTED, p.n), p.n)
  \o LE16(p.n) \o Times(EncMaterial, p.n)
  \o EncKeyFrameData
  \o LE16(p.n) \o Times(EncJoint(DIRTY, p.n, p.n), p.n)

\* the comments block up to the material-comment count.  p.gc, p.mc, p.jc,
\* p.modc: the declared comment counts; p.grec, p.mrec, p.jrec, p.modrec: the
\* comment records that follow each; p.clen: the declared length of every
\* comment's text
GroupComments(p) == LE32(1) \o LE32(p.gc) \o Times(EncComment(0, p.clen, Text), p.grec)

MaterialComments(p) == LE32(p.mc) \o Times(EncComment(0, p.clen, Text), p.mrec)

JointComments(p) == LE32(p.jc) \o Times(EncComment(0, p.clen, Text), p.jrec)

ModelComment(p) == LE32(p.modc) \o Times(EncComment(7, p.clen, Text), p.modrec)

\* the bytes of a file's mandatory sections
Mandatory(p) == BeforeComments(p) \o GroupComments(p) \o MaterialComments(p) \o JointComments(p) \o ModelComment(p)

\* de::VertexEx1 / VertexEx2 / VertexEx3 by sub-version
EncVertexEx(sv) == <<255, 255, 255, 100, 0, 0>> \o Rep(9, CASE sv = 2 -> 4 [] sv = 3 -> 8 [] OTHER -> 0)

\* the VertexExInfo section
VexSection(p) == LE32(p.sv) \o Times(EncVertexEx(p.sv), p.n)

\* the JointExInfo section
JexSection(p) == LE32(1) \o Times(Rep(58, 12), p.n)

\* the ModelExInfo section
MexSection == LE32(1) \o Rep(57, 4) \o LE32(0) \o Rep(56, 4)

\* the whole file
File(p) == Mandatory(p) \o VexSection(p) \o JexSection(p) \o MexSection

\* the header of a well-formed file
GoodHeader == MAGIC \o LE32(4)

\* the parameters of a well-formed file with n records per list and
\* VertexExInfo sub-version sv
WF(n, sv) ==
  [n |-> n, sv |-> sv, hdr |-> GoodHeader, clen |-> Len(Text),
   gc |-> n, grec |-> n, mc |-> n, mrec |-> n, jc |-> n, jrec |-> n,
   modc |-> Min(n, 1), modrec |-> Min(n, 1)]

\* what the properties know of an input: its family, its parameters, where it
\* was cut, where the three signed comment counts are, and where the
\* extension sections of the uncut file start
Describe(fam, p, cut) ==
  [fam |-> fam, p |-> p, cut |-> cut,
   mcAt |-> Len(BeforeComments(p)) + Len(GroupComments(p)),
   jcAt |-> Len(BeforeComments(p)) + Len(GroupComments(p)) + Len(MaterialComments(p)),
   modcAt |-> Len(BeforeComments(p)) + Len(GroupComments(p)) + Len(MaterialComments(p)) + Len(JointComments(p)),
   mand |-> Len(Mandatory(p)),
   jexAt |-> Len(Mandatory(p)) + Len(VexSection(p)),
   mexAt |-> Len(Mandatory(p)) + Len(VexSection(p)) + Len(JexSection(p)),
   full |-> Len(File(p))]

\* the file f, described by d, cut after `cut` bytes, for every cut
Cuts(f, d) == {[bytes |-> SubSeq(f, 1, cut), meta |-> [d EXCEPT !.cut = cut]] : cut \in 0..Len(f)}

\* the well-formed files, cut everywhere
TruncCases == UNION {Cuts(File(WF(n, 1)), Describe("trunc", WF(n, 1), 0)) : n \in 0..MaxCount}

\* bytes an altered magic byte takes
AltBytes == {0, 77, 255}

\* header versions other than 4, some with the low byte 4
AltVersions == {-1, 0, 3, 5, 260, 16777220}

\* a well-formed file with one magic byte altered, or with another version
HeaderCases ==
  {[bytes |-> File([WF(n, 1) EXCEPT !.hdr = h]), meta |-> Describe("header", [WF(n, 1) EXCEPT !.hdr = h], 0)] :
     <<n, h>> \in (0..MaxCount) \X
       ({[MAGIC EXCEPT ![i] = b] \o LE32(4) : <<i, b>> \in {ib \in (1..10) \X AltBytes : MAGIC[ib[1]] # ib[2]}}
        \cup {MAGIC \o LE32(v) : v \in AltVersions})}

\* declared counts of the signed comment count fields
SignedCounts == {-1, 0, 1}

\* declared model-comment counts
ModelCounts == {-2, -1, 0, 1, 2, 3}

\* files whose comment counts are chosen freely: a count d >= 0 is followed by
\* d records (one model comment at most), a negative count by one record
CommentCases ==
  {[bytes |-> File(p), meta |-> Describe("comments", p, 0)] :
     p \in {[WF(0, 1) EXCEPT !.gc = c[1], !.grec = c[1], !.mc = c[2], !.mrec = IF c[2] < 0 THEN 1 ELSE c[2],
                            !.jc = c[3], !.jrec = IF c[3] < 0 THEN 1 ELSE c[3],
                            !.modc = c[4], !.modrec = IF c[4] = 0 THEN 0 ELSE 1] :
              c \in (0..MaxCount) \X SignedCounts \X SignedCounts \X ModelCounts}}

\* declared comment lengths other than the text's: negative, or too long
AltLengths == {-1, -2147483647, 3, 2147483647}

\* well-formed files but for the declared length of their comments
LengthCases ==
  {[bytes |-> File(p), meta |-> Describe("length", p, 0)] :
     p \in {[WF(n, 1) EXCEPT !.clen = l] : <<n, l>> \in (1..MaxCount) \X AltLengths}}

\* VertexExInfo sub-versions, supported or not
SubVersions == {0, 1, 2, 3, 4}

\* well-formed files but for the VertexExInfo sub-version
VexCases == {[bytes |-> File(WF(n, sv)), meta |-> Describe("vex", WF(n, sv), 0)] : <<n, sv>> \in (0..MaxCount) \X SubVersions}

\* the most records a list or an extension section of an ExCases file holds
MaxEx == 2

\* a file with nv vertices and nj joints as its only records, whose
\* VertexExInfo section (sub-version sv) holds vx records and whose JointExInfo
\* section holds jx records
ExFile(nv, nj, vx, jx, sv) ==
  GoodHeader
  \o LE16(nv) \o Times(EncVertex(SELECTED), nv)
  \o LE16(0) \o LE16(0) \o LE16(0)
  \o EncKeyFrameData
  \o LE16(nj) \o Times(EncJoint(DIRTY, 0, 0), nj)
  \o LE32(1) \o LE32(0) \o LE32(0) \o LE32(0) \o LE32(0)
  \o LE32(sv) \o Times(EncVertexEx(sv), vx)
  \o LE32(1) \o Times(Rep(58, 12), jx)
  \o MexSection

\* files whose extension sections hold as many records as the lists before
\* them, or more, or fewer
ExCases ==
  {[bytes |-> ExFile(c[1], c[2], c[3], c[4], c[5]),
    meta |-> [fam |-> "excount", nv |-> c[1], nj |-> c[2], vx |-> c[3], jx |-> c[4], sv |-> c[5]]] :
     c \in (0..MaxEx) \X (0..MaxEx) \X (0..MaxEx) \X (0..MaxEx) \X {1, 2, 3}}

\* every input of the decoder
Cases == TruncCases \cup HeaderCases \cup CommentCases \cup LengthCases \cup VexCases \cup ExCases

(***************************************************************************)
(* The decoder as a state machine: an input file, and the two entry points *)
(* run on it, each once, in either order.                                  *)
(***************************************************************************)
\* a variable another specification uses
Unused == "-"

Entry == {"slice", "io"}

Idle == [st |-> "idle", ok |-> FALSE, err |-> "none", model |-> <<>>, log |-> <<>>]

\* what a call of read_model leaves: the Result, and the reads it made
Outcome(res) == [st |-> "done", ok |-> res.ok, err |-> res.err, model |-> res.val, log |-> res.rdr.log]

\* bytes a freshly reserved part of the scratch Vec may hold
UninitBytes == {0, 1}

Init ==
  /\ \E c \in Cases : input = c.bytes /\ meta = c.meta
  /\ out = [k \in Entry |-> Idle]
  /\ rd = Unused /\ last = Unused /\ fin = Unused /\ sin = Unused

\* Model::from_bytes: Reader::from_slice(bytes).read_model()
FromBytes ==
  /\ out["slice"].st = "idle"
  /\ out' = [out EXCEPT !["slice"] = Outcome(read_model(from_slice))]
  /\ UNCHANGED <<input, meta, rd, last, fin, sin>>

\* Model::from_reader: Reader::from_io_reader(rdr).read_model(), over a stream
\* that hands out the bytes in pieces of at most `chunk`
FromReader ==
  /\ out["io"].st = "idle"
  /\ \E chunk \in {ChunkUnit * c : c \in 1..MaxChunk}, uninit \in UninitBytes :
       out' = [out EXCEPT !["io"] = Outcome(read_model(from_io_reader(chunk, uninit)))]
  /\ UNCHANGED <<input, meta, rd, last, fin, sin>>

Next == FromBytes \/ FromReader

Spec == Init /\ [][Next]_vars

(***************************************************************************)
(* The byte sources on their own: a short source, and calls of read for    *)
(* any length on either realisation.                                       *)
(***************************************************************************)
\* the bytes of the source: 11, 12, ...
Pattern == [i \in 1..MaxSrc |-> 10 + i]

\* the lengths asked for: 0 .. MaxSrc + 1, and -1 as usize
ReadLens == {Usize(k) : k \in 0..(MaxSrc + 1)} \cup {I32AsUsize(-1)}

InitRead ==
  /\ \E k \in 0..MaxSrc : input = SubSeq(Pattern, 1, k)
  /\ \E chunk \in 1..MaxChunk, uninit \in UninitBytes :
       rd = [slice |-> SliceReader_new, io |-> IoReader_new(chunk, uninit), crashed |-> FALSE]
  /\ last = [st |-> "none"]
  /\ meta = Unused /\ out = Unused /\ fin = Unused /\ sin = Unused

\* one call of the byte source `kind` for n bytes
Call(kind, n) ==
  LET res == buf_read_exact(rd[kind], n)
  IN /\ ~rd.crashed
     /\ rd' = [rd EXCEPT ![kind] = res.rdr, !.crashed = (res.err = "panic")]
     /\ last' = [st |-> "called", kind |-> kind, n |-> n, before |-> Consumed(rd[kind]),
                 after |-> Consumed(res.rdr), ok |-> res.ok, err |-> res.err, val |-> res.val]
     /\ UNCHANGED <<input, meta, out, fin, sin>>

SliceRead == \E n \in ReadLens : Call("slice", n)

IoRead == \E n \in ReadLens : Call("io", n)

NextRead == SliceRead \/ IoRead

SpecRead == InitRead /\ [][NextRead]_vars

(***************************************************************************)
(* convert_flags on its own: every flags byte, for every entity kind.      *)
(***************************************************************************)
EntityKinds == {"vertex", "triangle", "group", "joint"}

\* the ALLOWED_FLAGS constant read_vertex / read_triangle / read_group /
\* read_joint pass to convert_flags
AllowedFlags(e) ==
  CASE e = "vertex" -> Vertex_ALLOWED_FLAGS
    [] e = "triangle" -> Triangle_ALLOWED_FLAGS
    [] e = "group" -> Group_ALLOWED_FLAGS
    [] e = "joint" -> Joint_ALLOWED_FLAGS

InitFlags ==
  /\ \E e \in EntityKinds, b \in Byte : fin = [st |-> "idle", entity |-> e, bits |-> b]
  /\ input = Unused /\ meta = Unused /\ out = Unused /\ rd = Unused /\ last = Unused /\ sin = Unused

\* the call convert_flags(flags, <entity>::ALLOWED_FLAGS)
ConvertFlags ==
  /\ fin.st = "idle"
  /\ LET res == convert_flags(fin.bits, AllowedFlags(fin.entity))
     IN fin' = [st |-> "done", entity |-> fin.entity, bits |-> fin.bits, ok |-> res.ok,
                flags |-> IF res.ok THEN res.val.bits ELSE -1]
  /\ UNCHANGED <<input, meta, out, rd, last, sin>>

NextFlags == ConvertFlags

SpecFlags == InitFlags /\ [][NextFlags]_vars

(***************************************************************************)
(* convert_string / convert_path on their own: every byte array up to      *)
(* MaxStr bytes over bytes that matter to them.                            *)
(***************************************************************************)
\* zero, two ASCII letters, a UTF-8 lead byte and a continuation byte
StrBytes == {0, 65, 66, 195, 169}

StrInputs == UNION {[1..w -> StrBytes] : w \in 0..MaxStr}

InitString ==
  /\ \E bs \in StrInputs, f \in {"string", "path"} : sin = [st |-> "idle", fn |-> f, bytes |-> bs]
  /\ input = Unused /\ meta = Unused /\ out = Unused /\ rd = Unused /\ last = Unused /\ fin = Unused

\* the call convert_string(&bytes) or convert_path(&bytes)
ConvertString ==
  /\ sin.st = "idle"
  /\ LET res == IF sin.fn = "string" THEN convert_string(sin.bytes) ELSE convert_path(sin.bytes)
     IN sin' = [st |-> "done", fn |-> sin.fn, bytes |-> sin.bytes, ok |-> res.ok, val |-> res.val]
  /\ UNCHANGED <<input, meta, out, rd, last, fin>>

NextString == ConvertString

SpecString == InitString /\ [][NextString]_vars

(***************************************************************************)
(* Properties of the decoder (specification Spec).                         *)
(***************************************************************************)
Done(k) == out[k].st = "done"

\* the decode returned an error value to its caller
Failed(o) == ~o.ok /\ o.err \in {"eof", "format", "utf8"}

\* the last read the decode made
LastRead(k) == out[k].log[Len(out[k].log)]

\* C1: a well-formed file that ends exactly where the VertexExInfo, the
\* JointExInfo or the ModelExInfo section would start decodes successfully
\* (the sections from there on are absent, which is no error).
C1_AbsentTailDecodes ==
  \A k \in Entry :
    (Done(k) /\ meta.fam = "trunc" /\ meta.cut \in {meta.mand, meta.jexAt, meta.mexAt}) => out[k].ok

\* C2: a well-formed file cut inside its mandatory sections (before the end of
\* the comments block) fails to decode with an end-of-input error; no Model
\* is returned.
C2_TruncatedMandatoryFails ==
  \A k \in Entry :
    (Done(k) /\ meta.fam = "trunc" /\ meta.cut < meta.mand) => (~out[k].ok /\ out[k].err = "eof")

\* a file with one vertex, cut one byte short of the end of the vertex list,
\* was decoded and failed at its end
C2_Witness ==
  \E k \in Entry :
    Done(k) /\ meta.fam = "trunc" /\ meta.p.n = 1 /\ meta.cut = 30 /\ out[k].err = "eof"
    /\ LastRead(k).ty = "Vertex"

\* C3: when the 14 header bytes are there and the magic differs from
\* "MS3D000000" or the version is not 4, the decode fails with a format error
\* after one read, of the 14 header bytes, whatever follows.
C3_BadHeaderFailsFirst ==
  \A k \in Entry :
    (Done(k) /\ Len(input) >= 14 /\ (SubSeq(input, 1, 10) # <<77, 83, 51, 68, 48, 48, 48, 48, 48, 48>> \/ SubSeq(input, 11, 14) # <<4, 0, 0, 0>>))
      => (~out[k].ok /\ out[k].err = "format"
          /\ out[k].log = <<[ty |-> "Header", n |-> 14, ok |-> TRUE, from |-> 0, to |-> 14]>>)

\* a file of version 5 with well-formed sections after the header was decoded
\* and rejected
C3_Witness ==
  \E k \in Entry :
    Done(k) /\ meta.fam = "header" /\ SubSeq(input, 11, 14) = <<5, 0, 0, 0>> /\ Len(input) > 14
    /\ out[k].err = "format"

\* C5: in a file that is well-formed but for its model-comment count, a count
\* of 0 decodes with no model comment, a count of 1 decodes with the one
\* comment that follows it, and a count of 2 or more fails the decode.
C5_ModelCommentCount ==
  \A k \in Entry :
    (Done(k) /\ meta.fam = "comments" /\ meta.p.mc >= 0 /\ meta.p.jc >= 0) =>
      /\ meta.p.modc = 0 => (out[k].ok /\ out[k].model.comments.model_comment = <<>>)
      /\ meta.p.modc = 1 => (out[k].ok /\ out[k].model.comments.model_comment = <<[index |-> 7, comment |-> <<104, 105>>]>>)
      /\ meta.p.modc >= 2 => (~out[k].ok /\ out[k].err = "format")

\* a file with a model-comment count of 2 was rejected at that count
C5_Witness ==
  \E k \in Entry :
    Done(k) /\ meta.fam = "comments" /\ meta.p.mc >= 0 /\ meta.p.jc >= 0 /\ meta.p.modc = 2
    /\ out[k].err = "format" /\ LastRead(k).from = meta.modcAt

\* where the first negative signed comment count of the input is
FirstNegativeAt == IF meta.p.mc < 0 THEN meta.mcAt ELSE IF meta.p.jc < 0 THEN meta.jcAt ELSE meta.modcAt

\* C6: a negative material-, joint- or model-comment count is rejected as a
\* format error when it is read: the read of the count is the last read, and
\* no comment record is read for it.
C6_NegativeCountRejected ==
  \A k \in Entry :
    (Done(k) /\ meta.fam = "comments" /\ (meta.p.mc < 0 \/ meta.p.jc < 0 \/ meta.p.modc < 0)) =>
      (~out[k].ok /\ out[k].err = "format" /\ LastRead(k).ty = "i32" /\ LastRead(k).from = FirstNegativeAt)

\* C7: the two entry points give the same outcome on the same bytes: both
\* return the same Model, or both return an error.
C7_SameOutcome ==
  (Done("slice") /\ Done("io")) =>
    \/ out["slice"].ok /\ out["io"].ok /\ out["slice"].model = out["io"].model
    \/ Failed(out["slice"]) /\ Failed(out["io"])

\* the packed widths test_sizes of de.rs asserts
DocWidth(T) ==
  CASE T = "Header" -> 14 [] T = "Vertex" -> 15 [] T = "Triangle" -> 70
    [] T = "Material" -> 361 [] T = "KeyFrameRot" -> 16 [] T = "KeyFramePos" -> 16

DocTypes == {"Header", "Vertex", "Triangle", "Material", "KeyFrameRot", "KeyFramePos"}

\* C10: every read of a Header, Vertex, Triangle, Material, KeyFrameRot or
\* KeyFramePos record asks the byte source for the documented packed width
\* and, when it succeeds, moves the source on by exactly that many bytes.
C10_PackedWidths ==
  \A k \in Entry :
    Done(k) => \A i \in 1..Len(out[k].log) :
      LET e == out[k].log[i]
      IN e.ty \in DocTypes => (e.n = DocWidth(e.ty) /\ (e.ok => e.to - e.from = DocWidth(e.ty)))

\* a decode that read a record of each of the six types
C10_Witness ==
  \E k \in Entry :
    Done(k) /\ out[k].ok /\ \A T \in DocTypes : \E i \in 1..Len(out[k].log) : out[k].log[i].ty = T /\ out[k].log[i].ok

(***************************************************************************)
(* Properties of the byte sources (specification SpecRead).                *)
(***************************************************************************)
\* C9: a call of read for n bytes returns the next n bytes of the source and
\* moves the position on by n, or fails with an end-of-input error when fewer
\* than n bytes are left.
C9_ExactOrEof ==
  last.st = "called" =>
    \/ /\ last.ok /\ Small(last.n)
       /\ last.val = SubSeq(input, last.before + 1, last.before + Val(last.n))
       /\ last.after = last.before + Val(last.n)
    \/ ~last.ok /\ last.err = "eof" /\ NatLt(Len(input) - last.before, last.n)

(***************************************************************************)
(* Properties of convert_flags (specification SpecFlags).                  *)
(***************************************************************************)
\* the flag bits the entity kind allows
AllowedBits(e) ==
  CASE e \in {"vertex", "triangle"} -> {1, 2, 4}
    [] e = "group" -> {1, 2}
    [] e = "joint" -> {1, 8}

\* the bits set in a byte, as powers of two
BitsOf(b) == {w \in {1, 2, 4, 8, 16, 32, 64, 128} : (b \div w) % 2 = 1}

\* C4: convert_flags succeeds exactly when every bit set in the byte is one
\* the entity kind allows, and the flags it returns are the byte's bits.
C4_FlagsValidated ==
  fin.st = "done" =>
    /\ fin.ok <=> BitsOf(fin.bits) \subseteq AllowedBits(fin.entity)
    /\ fin.ok => fin.flags = fin.bits

\* a group's flags byte with SELECTED2 set (allowed for a vertex, not for a
\* group) was converted and rejected
C4_Witness == fin.st = "done" /\ fin.entity = "group" /\ fin.bits = 5 /\ ~fin.ok

(***************************************************************************)
(* Properties of convert_string / convert_path (specification SpecString). *)
(***************************************************************************)
\* the number of bytes before the first zero byte (all of them if none is zero)
ZeroFree(bs) == CHOOSE n \in 0..Len(bs) : (\A j \in 1..n : bs[j] # 0) /\ (n = Len(bs) \/ bs[n + 1] = 0)

\* C8: the string decoded from a byte array is the whole array when it holds
\* no zero byte and the bytes before the first zero byte when it holds one;
\* the bytes after that zero do not matter, not even to whether the
\* conversion succeeds.
C8_StringBeforeZero ==
  sin.st = "done" =>
    LET head == SubSeq(sin.bytes, 1, ZeroFree(sin.bytes))
    IN /\ sin.ok <=> from_utf8(head)
       /\ sin.ok => sin.val = head

\* an array with a letter, a zero and then a stray continuation byte was
\* converted to the letter alone
C8_Witness == sin.st = "done" /\ sin.bytes = <<65, 0, 169>> /\ sin.ok /\ sin.val = <<65>>

\* the types of the last k reads of the decode
LastTypes(k, n) == [i \in 1..n |-> out[k].log[Len(out[k].log) - n + i].ty]

\* the reads of the three extension sections of a model m: the sub-version
\* tag, then the records and nothing else
ExReads(m) ==
  <<"i32">> \o [i \in 1..Len(m.vertices) |-> CASE m.vertex_ex_info.variant = 1 -> "VertexEx1"
                                               [] m.vertex_ex_info.variant = 2 -> "VertexEx2"
                                               [] m.vertex_ex_info.variant = 3 -> "VertexEx3"]
  \o <<"i32">> \o [i \in 1..Len(m.joints) |-> "JointEx"]
  \o <<"i32", "ModelEx">>

\* C11: in every successful decode the VertexExInfo payload holds as many
\* records as the vertex list and the JointExInfo payload as many as the joint
\* list, and the decode ends with the reads of the extension sections alone:
\* each sub-version tag is followed at once by that many records, no count
\* field is read.
C11_ExInfoCounts ==
  \A k \in Entry :
    (Done(k) /\ out[k].ok) =>
      /\ Len(out[k].model.vertex_ex_info.items) = Len(out[k].model.vertices)
      /\ Len(out[k].model.joint_ex_info.joint_ex) = Len(out[k].model.joints)
      /\ Len(out[k].log) >= Len(ExReads(out[k].model))
      /\ LastTypes(k, Len(ExReads(out[k].model))) = ExReads(out[k].model)

\* a file with two vertices and one joint was decoded, with two VertexEx2
\* records and one JointEx record in the Model
C11_Witness ==
  \E k \in Entry :
    /\ Done(k) /\ out[k].ok /\ meta.fam = "excount" /\ meta.nv = 2 /\ meta.nj = 1 /\ meta.sv = 2
    /\ Len(out[k].model.vertices) = 2 /\ Len(out[k].model.vertex_ex_info.items) = 2
    /\ Len(out[k].model.joints) = 1 /\ Len(out[k].model.joint_ex_info.joint_ex) = 1

============================================================================
